---- MODULE Spec2Model ----
(***************************************************************************)
(* Model of odata/metadata.py: MetaData.get_entity_sets, the multi-pass    *)
(* compiler from a CSDL/EDMX document to entity classes, a type table and  *)
(* the service's action/function registries.                               *)
(*                                                                         *)
(* Strings that the code inspects character by character (type names) are  *)
(* sequences of one-character strings, so that startswith / lstrip /       *)
(* rstrip / replace / join are computed the way Python computes them.      *)
(* Python classes are records on a heap (classes); attribute lookup        *)
(* follows the single-inheritance parent chain.                            *)
(***************************************************************************)
EXTENDS Integers, Sequences, FiniteSets, TLC

VARIABLES
    doc,               \* the EDMX document handed to parse_document
    pc,                \* position inside get_entity_sets
    idx,               \* loop counter of the running pass
    schemas,           \* parse_document: list of schema dicts
    entity_sets,       \* parse_document: container_sets (type name -> set dict)
    actions,           \* parse_document: list of action dicts
    functions,         \* parse_document: list of function dicts
    all_types,         \* get_entity_sets: all_types (type name -> type object)
    entities,          \* get_entity_sets: entities (insertion-ordered dict)
    classes,           \* heap of the entity classes built by type(...)
    enum_objs,         \* heap of the EnumType objects
    service_actions,   \* self.service.actions
    service_functions, \* self.service.functions
    typename,          \* argument of a direct call of _type_is_collection
    strip_result       \* its return value

vars == <<doc, pc, idx, schemas, entity_sets, actions, functions, all_types,
          entities, classes, enum_objs, service_actions, service_functions,
          typename, strip_result>>

-----------------------------------------------------------------------------
(* Bounds of the model.                                                    *)

\* most entity types a document declares
MaxEntityTypes == 3
\* longest bare type name handed to _type_is_collection directly
MaxNameLen == 3

-----------------------------------------------------------------------------
(* Python values.                                                          *)

\* Python's None (no one-character string, so no type name equals it)
None == <<"<None>">>

\* truth value of an optional string: None and '' are falsy
Truthy(s) == s # None /\ s # <<>>

\* d[k] = v
DictPut(d, k, v) == [x \in DOMAIN d \cup {k} |-> IF x = k THEN v ELSE d[x]]

EmptyDict == [x \in {} |-> None]

\* '.'.join([a, b])
DotJoin(a, b) == a \o <<".">> \o b

\* s.startswith(p)
StartsWith(s, p) == Len(s) >= Len(p) /\ SubSeq(s, 1, Len(p)) = p

\* the characters of a string, as str.lstrip / str.rstrip read their argument
CharsOf(p) == {p[i] : i \in 1..Len(p)}

RECURSIVE LStrip(_, _)
\* s.lstrip(chars): drops leading characters while they are in the set chars
LStrip(s, chars) ==
    IF s # <<>> /\ Head(s) \in chars THEN LStrip(Tail(s), chars) ELSE s

RECURSIVE RStrip(_, _)
\* s.rstrip(chars): drops trailing characters while they are in the set chars
RStrip(s, chars) ==
    IF s # <<>> /\ s[Len(s)] \in chars
    THEN RStrip(SubSeq(s, 1, Len(s) - 1), chars)
    ELSE s

RECURSIVE StrReplace(_, _, _)
\* s.replace(old, new): left to right, non overlapping
StrReplace(s, old, new) ==
    IF Len(s) < Len(old) THEN s
    ELSE IF SubSeq(s, 1, Len(old)) = old
         THEN new \o StrReplace(SubSeq(s, Len(old) + 1, Len(s)), old, new)
         ELSE <<Head(s)>> \o StrReplace(Tail(s), old, new)

-----------------------------------------------------------------------------
(* String literals of the program.                                         *)

CollectionPrefix == <<"C","o","l","l","e","c","t","i","o","n","(">>
CloseParen == <<")">>
AliasShort == <<"m","s","c","r","m">>
AliasFull == <<"M","i","c","r","o","s","o","f","t",".","D","y","n","a","m","i","c","s",".","C","R","M">>
BindingParameter == <<"b","i","n","d","i","n","g","P","a","r","a","m","e","t","e","r">>

EdmInt16 == <<"E","d","m",".","I","n","t","1","6">>
EdmInt32 == <<"E","d","m",".","I","n","t","3","2">>
EdmInt64 == <<"E","d","m",".","I","n","t","6","4">>
EdmString == <<"E","d","m",".","S","t","r","i","n","g">>
EdmSingle == <<"E","d","m",".","S","i","n","g","l","e">>
EdmDecimal == <<"E","d","m",".","D","e","c","i","m","a","l">>
EdmDateTimeOffset == <<"E","d","m",".","D","a","t","e","T","i","m","e","O","f","f","s","e","t">>
EdmBoolean == <<"E","d","m",".","B","o","o","l","e","a","n">>
EdmGuid == <<"E","d","m",".","G","u","i","d">>

\* MetaData.property_types
property_types ==
    [t \in {EdmInt16, EdmInt32, EdmInt64, EdmString, EdmSingle, EdmDecimal,
            EdmDateTimeOffset, EdmBoolean, EdmGuid} |->
        CASE t \in {EdmInt16, EdmInt32, EdmInt64} -> "IntegerProperty"
          [] t = EdmString -> "StringProperty"
          [] t \in {EdmSingle, EdmDecimal} -> "DecimalProperty"
          [] t = EdmDateTimeOffset -> "DatetimeProperty"
          [] t = EdmBoolean -> "BooleanProperty"
          [] t = EdmGuid -> "UUIDProperty"]

\* MetaData.property_type_to_python
property_type_to_python(edm_type) ==
    IF edm_type \in DOMAIN property_types
    THEN property_types[edm_type]
    ELSE "StringProperty"

\* MetaData._type_is_collection: <<is_collection, stripped>>
_type_is_collection(name) ==
    IF StartsWith(name, CollectionPrefix)
    THEN <<TRUE, RStrip(LStrip(name, CharsOf(CollectionPrefix)), CharsOf(CloseParen))>>
    ELSE <<FALSE, name>>

\* MetaData.get_type_name
get_type_name(name) == StrReplace(name, AliasShort, AliasFull)

-----------------------------------------------------------------------------
(* parse_document: the raw schema extractor.                               *)
(* An XML element is a record of its attributes and child elements.        *)

\* MetaData._parse_enumtype
_parse_enumtype(enumtype_element, schema_name) ==
    [name |-> enumtype_element.Name,
     fully_qualified_name |-> DotJoin(schema_name, enumtype_element.Name),
     members |-> [i \in 1..Len(enumtype_element.Members) |->
                    [name |-> enumtype_element.Members[i].Name,
                     value |-> enumtype_element.Members[i].Value]]]

\* MetaData._parse_entity
_parse_entity(entity_element, schema_name) ==
    [name |-> entity_element.Name,
     type |-> DotJoin(schema_name, entity_element.Name),
     base_type |-> IF Truthy(entity_element.BaseType)
                   THEN get_type_name(entity_element.BaseType)
                   ELSE None,
     properties |->
        [i \in 1..Len(entity_element.Properties) |->
            LET p == entity_element.Properties[i]
                r == _type_is_collection(get_type_name(p.Type))
            IN  [name |-> p.Name,
                 type |-> r[2],
                 is_primary_key |-> p.Name \in entity_element.Key,
                 is_collection |-> r[1]]],
     navigation_properties |->
        [i \in 1..Len(entity_element.NavigationProperties) |->
            LET n == entity_element.NavigationProperties[i]
            IN  [name |-> n.Name,
                 type |-> get_type_name(n.Type),
                 foreign_key |-> n.Property]]]

RECURSIVE BoundTo(_, _)
\* the parameter loop of _parse_action: the Type of the last bindingParameter
BoundTo(params, is_bound) ==
    IF params = <<>> THEN None
    ELSE LET last == params[Len(params)]
         IN  IF is_bound /\ last.Name = BindingParameter
             THEN last.Type
             ELSE BoundTo(SubSeq(params, 1, Len(params) - 1), is_bound)

RECURSIVE LastReturn(_, _)
\* the ReturnType loop of _parse_action: the last type name of one kind
LastReturn(types, collection) ==
    IF types = <<>> THEN None
    ELSE LET r == _type_is_collection(types[Len(types)])
         IN  IF r[1] = collection
             THEN r[2]
             ELSE LastReturn(SubSeq(types, 1, Len(types) - 1), collection)

\* MetaData._parse_action
_parse_action(action_element, schema_name) ==
    LET is_bound == action_element.IsBound
        kept == SelectSeq(action_element.Parameters,
                          LAMBDA p : ~(is_bound /\ p.Name = BindingParameter))
    IN  [name |-> action_element.Name,
         fully_qualified_name |->
            IF is_bound THEN DotJoin(schema_name, action_element.Name)
                        ELSE action_element.Name,
         is_bound |-> is_bound,
         is_bound_to |-> BoundTo(action_element.Parameters, is_bound),
         parameters |-> [i \in 1..Len(kept) |->
                            [name |-> kept[i].Name, type |-> kept[i].Type]],
         return_type |-> LastReturn(action_element.ReturnType, FALSE),
         return_type_collection |-> LastReturn(action_element.ReturnType, TRUE)]

\* MetaData._parse_function
_parse_function(function_element, schema_name) ==
    LET is_bound == function_element.IsBound
        kept == SelectSeq(function_element.Parameters,
                          LAMBDA p : ~(is_bound /\ p.Name = BindingParameter))
    IN  [name |-> function_element.Name,
         fully_qualified_name |->
            IF is_bound THEN DotJoin(schema_name, function_element.Name)
                        ELSE function_element.Name,
         is_bound |-> is_bound,
         is_bound_to |-> BoundTo(function_element.Parameters, is_bound),
         parameters |-> [i \in 1..Len(kept) |->
                            [name |-> kept[i].Name, type |-> kept[i].Type]],
         return_type |-> LastReturn(function_element.ReturnType, FALSE),
         return_type_collection |-> LastReturn(function_element.ReturnType, TRUE)]

\* parse_document, first loop: one schema dict per Schema element
ParseSchemas(d) ==
    [i \in 1..Len(d.Schemas) |->
        LET s == d.Schemas[i]
        IN  [name |-> s.Namespace,
             enum_types |-> [j \in 1..Len(s.EnumTypes) |->
                                _parse_enumtype(s.EnumTypes[j], s.Namespace)],
             entities |-> [j \in 1..Len(s.EntityTypes) |->
                                _parse_entity(s.EntityTypes[j], s.Namespace)]]]

RECURSIVE AllEntities(_)
\* the entity dicts in traversal order: for schema in schemas: for entity in ...
AllEntities(ss) ==
    IF ss = <<>> THEN <<>> ELSE Head(ss).entities \o AllEntities(Tail(ss))

RECURSIVE AllEnums(_)
\* the enum dicts in traversal order
AllEnums(ss) ==
    IF ss = <<>> THEN <<>> ELSE Head(ss).enum_types \o AllEnums(Tail(ss))

RECURSIVE LastEntityOfType(_, _)
\* parse_document, the scan that links a set to its entity dict (last match)
LastEntityOfType(ents, set_type) ==
    IF ents = <<>> THEN None
    ELSE IF ents[Len(ents)].type = set_type
         THEN ents[Len(ents)]
         ELSE LastEntityOfType(SubSeq(ents, 1, Len(ents) - 1), set_type)

RECURSIVE AllEntitySets(_)
\* the EntitySet elements of every schema's container, in document order
AllEntitySets(ss) ==
    IF ss = <<>> THEN <<>> ELSE Head(ss).EntitySets \o AllEntitySets(Tail(ss))

RECURSIVE ContainerSets(_, _)
\* parse_document, second loop: container_sets[set_type] = set_dict
ContainerSets(sets, parsed) ==
    IF sets = <<>> THEN EmptyDict
    ELSE LET entity_set == sets[Len(sets)]
             set_type == get_type_name(entity_set.EntityType)
         IN  DictPut(ContainerSets(SubSeq(sets, 1, Len(sets) - 1), parsed),
                     set_type,
                     [name |-> entity_set.Name,
                      type |-> set_type,
                      schema |-> LastEntityOfType(AllEntities(parsed), set_type)])

RECURSIVE ParseActions(_)
\* parse_document, second loop: actions.append(_parse_action(...))
ParseActions(ss) ==
    IF ss = <<>> THEN <<>>
    ELSE [j \in 1..Len(Head(ss).Actions) |->
            _parse_action(Head(ss).Actions[j], Head(ss).Namespace)]
         \o ParseActions(Tail(ss))

RECURSIVE ParseFunctions(_)
\* parse_document, second loop: functions.append(_parse_function(...))
ParseFunctions(ss) ==
    IF ss = <<>> THEN <<>>
    ELSE [j \in 1..Len(Head(ss).Functions) |->
            _parse_function(Head(ss).Functions[j], Head(ss).Namespace)]
         \o ParseFunctions(Tail(ss))

-----------------------------------------------------------------------------
(* Objects built by get_entity_sets.                                       *)

\* a reference held in all_types or returned by a type lookup:
\* an entity class (index into classes), an EnumType object (index into
\* enum_objs), a property class of property_types, or Python's None
EntityRef(id) == [k |-> "entity", id |-> id, py |-> ""]
EnumRef(id) == [k |-> "enum", id |-> id, py |-> ""]
PropertyClass(py) == [k |-> "property", id |-> 0, py |-> py]
NoObject == [k |-> "none", id |-> 0, py |-> ""]

\* all_types.get(name)
TypesGet(types, name) == IF name \in DOMAIN types THEN types[name] ELSE NoObject

\* the values of the insertion-ordered dict entities, in iteration order
EntityValues(ents) == [i \in 1..Len(ents) |-> ents[i].cls]

EntityKeys(ents) == {ents[i].key : i \in 1..Len(ents)}

\* entities[key] = cls: a new key is appended, a known key keeps its position
EntitiesPut(ents, key, cls) ==
    IF key \in EntityKeys(ents)
    THEN [i \in 1..Len(ents) |->
            IF ents[i].key = key THEN [key |-> key, cls |-> cls] ELSE ents[i]]
    ELSE Append(ents, [key |-> key, cls |-> cls])

RECURSIVE HasAttr(_, _, _)
\* hasattr(cls, name): the class's own attributes, then its base's
HasAttr(heap, c, name) ==
    \/ name \in DOMAIN heap[c].attrs
    \/ heap[c].parent # 0 /\ HasAttr(heap, heap[c].parent, name)

RECURSIVE GetAttr(_, _, _)
\* getattr(cls, name) where hasattr(cls, name)
GetAttr(heap, c, name) ==
    IF name \in DOMAIN heap[c].attrs
    THEN heap[c].attrs[name]
    ELSE GetAttr(heap, heap[c].parent, name)

\* setattr(cls, name, value)
SetAttr(heap, c, name, value) ==
    [heap EXCEPT ![c].attrs = DictPut(heap[c].attrs, name, value)]

-----------------------------------------------------------------------------
(* get_entity_sets: the enum pass.                                         *)

\* get_entity_sets, lines 208-212: one EnumType per enum dict
CreateEnum ==
    /\ pc = "enums"
    /\ idx <= Len(AllEnums(schemas))
    /\ LET enum_type == AllEnums(schemas)[idx]
           names == [i \in 1..Len(enum_type.members) |->
                        <<enum_type.members[i].name, enum_type.members[i].value>>]
       IN  /\ enum_objs' = Append(enum_objs, [name |-> enum_type.name, names |-> names])
           /\ all_types' = DictPut(all_types, enum_type.fully_qualified_name,
                                   EnumRef(Len(enum_objs) + 1))
    /\ idx' = idx + 1
    /\ UNCHANGED <<doc, pc, schemas, entity_sets, actions, functions, entities,
                   classes, service_actions, service_functions, typename, strip_result>>

-----------------------------------------------------------------------------
(* _create_entities: the type graph builder.                               *)

\* a namer that looks the set up under the bare name of the type
CollectionNameByBareName(sets, entity_type, entity_name) ==
    LET collection_name ==
            IF entity_name \in DOMAIN sets THEN sets[entity_name].name ELSE None
    IN  IF ~Truthy(collection_name) THEN entity_name ELSE collection_name

\* lines 86-89: the Entity Set Namer
CollectionName(sets, entity_type, entity_name) ==
    LET collection_name ==
            IF entity_type \in DOMAIN sets THEN sets[entity_type].name ELSE None
    IN  IF ~Truthy(collection_name) THEN entity_name ELSE collection_name

\* a builder that makes every type a root type
ParentClassRoot(types, base_type) == 0

\* line 84 and the test of line 97: the class to extend, 0 for a root type
\* (documents name entity types as BaseType, never an enum type)
ParentClass(types, base_type) ==
    LET parent_entity_class == TypesGet(types, base_type)
    IN  IF Truthy(base_type) /\ parent_entity_class.k # "none"
        THEN parent_entity_class.id
        ELSE 0

\* a builder that keys entities by the collection name
EntitiesKeyCollection(entity_name, collection_name) == collection_name

\* lines 100 and 104: the key under which the class enters entities
EntitiesKey(entity_name, collection_name) == entity_name

\* a builder that looks for the property on the class itself only
PropertyExistsOwnOnly(heap, attrs, parent, prop_name) == prop_name \in DOMAIN attrs

\* line 111: hasattr(entity_class, prop_name) while the class is being filled
\* (the member names of the documents are no attributes of EntityBase)
PropertyExists(heap, attrs, parent, prop_name) ==
    \/ prop_name \in DOMAIN attrs
    \/ parent # 0 /\ HasAttr(heap, parent, prop_name)

\* lines 115-125: the property instance of one property dict
PropertyInstance(types, prop, owner) ==
    LET property_type == TypesGet(types, prop.type)
    IN  IF property_type.k = "enum"
        THEN [kind |-> "EnumTypeProperty", name |-> prop.name, owner |-> owner,
              primary_key |-> FALSE, is_collection |-> FALSE,
              enum_class |-> property_type.id, target |-> 0, foreign_key |-> None]
        ELSE [kind |-> property_type_to_python(prop.type), name |-> prop.name,
              owner |-> owner, primary_key |-> prop.is_primary_key,
              is_collection |-> prop.is_collection,
              enum_class |-> 0, target |-> 0, foreign_key |-> None]

RECURSIVE AttachProperties(_, _, _, _, _, _)
\* lines 108-126: the property loop, first to last
AttachProperties(heap, types, attrs, parent, owner, props) ==
    IF props = <<>> THEN attrs
    ELSE LET prop == Head(props)
         IN  IF PropertyExists(heap, attrs, parent, prop.name)
             THEN AttachProperties(heap, types, attrs, parent, owner, Tail(props))
             ELSE AttachProperties(heap, types,
                                   DictPut(attrs, prop.name,
                                           PropertyInstance(types, prop, owner)),
                                   parent, owner, Tail(props))

\* a builder that starts the table anew for each entity type
RegisterTypeFresh(types, entity_type, id) == DictPut(EmptyDict, entity_type, EntityRef(id))

\* line 106: all_types[entity_type] = entity_class
RegisterType(types, entity_type, id) == DictPut(types, entity_type, EntityRef(id))

\* _create_entities, one iteration of the inner loop (lines 80-126)
CreateEntity ==
    /\ pc = "entities"
    /\ idx <= Len(AllEntities(schemas))
    /\ LET entity_dict == AllEntities(schemas)[idx]
           entity_type == entity_dict.type
           entity_name == entity_dict.name
           parent == ParentClass(all_types, entity_dict.base_type)
           collection_name == CollectionName(entity_sets, entity_type, entity_name)
           id == Len(classes) + 1
           types1 == RegisterType(all_types, entity_type, id)
           attrs == AttachProperties(classes, types1, EmptyDict, parent, id,
                                     entity_dict.properties)
           entity_class == [name |-> entity_name,
                            parent |-> parent,
                            odata_schema |-> entity_dict,
                            odata_type |-> entity_type,
                            odata_collection |-> collection_name,
                            attrs |-> attrs]
       IN  /\ classes' = Append(classes, entity_class)
           /\ entities' = IF Truthy(collection_name)
                          THEN EntitiesPut(entities,
                                           EntitiesKey(entity_name, collection_name), id)
                          ELSE entities
           /\ all_types' = types1
    /\ idx' = idx + 1
    /\ UNCHANGED <<doc, pc, schemas, entity_sets, actions, functions, enum_objs,
                   service_actions, service_functions, typename, strip_result>>

-----------------------------------------------------------------------------
(* _set_object_relationships: the relationship resolver.                   *)

\* a resolver whose search loop does not compare the type names
NavigationTargetsUnfiltered(heap, ents, type_) == EntityValues(ents)

\* lines 67-68: the classes of entities.values() whose schema type is type_
NavigationTargets(heap, ents, type_) ==
    SelectSeq(EntityValues(ents), LAMBDA c : heap[c].odata_schema.type = type_)

\* lines 69-74: NavigationProperty(name, _search_entity, collection, foreign_key)
NavigationInstance(name, target, is_collection, foreign_key, owner) ==
    [kind |-> "NavigationProperty", name |-> name, owner |-> owner,
     primary_key |-> FALSE, is_collection |-> is_collection,
     enum_class |-> 0, target |-> target, foreign_key |-> foreign_key]

RECURSIVE SetNavigation(_, _, _, _, _, _)
\* lines 67-75: setattr(entity, name, nav) for every match of the search loop
SetNavigation(heap, c, name, is_collection, foreign_key, targets) ==
    IF targets = <<>> THEN heap
    ELSE SetNavigation(
             SetAttr(heap, c, name,
                     NavigationInstance(name, Head(targets), is_collection,
                                        foreign_key, c)),
             c, name, is_collection, foreign_key, Tail(targets))

RECURSIVE AttachNavigations(_, _, _, _)
\* lines 60-75: the navigation properties of one entity, first to last
AttachNavigations(heap, ents, c, navs) ==
    IF navs = <<>> THEN heap
    ELSE LET schema_nav == Head(navs)
             r == _type_is_collection(schema_nav.type)
         IN  AttachNavigations(
                 SetNavigation(heap, c, schema_nav.name, r[1], schema_nav.foreign_key,
                               NavigationTargets(heap, ents, r[2])),
                 ents, c, Tail(navs))

\* _set_object_relationships, one iteration of the outer loop (lines 57-75)
SetObjectRelationships ==
    /\ pc = "relationships"
    /\ idx <= Len(entities)
    /\ LET entity == EntityValues(entities)[idx]
       IN  classes' = AttachNavigations(classes, entities, entity,
                          classes[entity].odata_schema.navigation_properties)
    /\ idx' = idx + 1
    /\ UNCHANGED <<doc, pc, schemas, entity_sets, actions, functions, all_types,
                   entities, enum_objs, service_actions, service_functions,
                   typename, strip_result>>

-----------------------------------------------------------------------------
(* _create_actions / _create_functions: the operation binder.              *)

\* a lookup that does not consult the type table
get_prop_from_type(types, name) ==
    IF name = None THEN NoObject ELSE PropertyClass(property_type_to_python(name))

\* get_entity_sets.get_entity_or_prop_from_type (lines 198-206)
get_entity_or_prop_from_type(types, name) ==
    IF name = None THEN NoObject
    ELSE IF TypesGet(types, name).k # "none"
         THEN TypesGet(types, name)
         ELSE PropertyClass(property_type_to_python(name))

\* lines 142 and 173: the class recorded for one parameter
ParameterType(param) == PropertyClass(property_type_to_python(param.type))

RECURSIVE ParametersDict(_)
\* lines 140-142 and 171-173: parameters_dict
ParametersDict(params) ==
    IF params = <<>> THEN EmptyDict
    ELSE DictPut(ParametersDict(SubSeq(params, 1, Len(params) - 1)),
                 params[Len(params)].name,
                 ParameterType(params[Len(params)]))

\* lines 133-138 and 164-169: <<bound_to_collection, bind_entity>>, 0 for None
BindEntity(heap, ents, is_bound_to) ==
    IF Truthy(is_bound_to)
    THEN LET r == _type_is_collection(is_bound_to)
             found == NavigationTargets(heap, ents, r[2])
         IN  <<r[1], IF found = <<>> THEN 0 ELSE found[Len(found)]>>
    ELSE <<FALSE, 0>>

\* lines 144-152 and 175-183: the instance of the synthesised operation class
OperationInstance(kind, types, op, bound_to_collection) ==
    [kind |-> kind,
     short_name |-> op.name,
     name |-> op.fully_qualified_name,
     parameters |-> ParametersDict(op.parameters),
     return_type |-> get_entity_or_prop_from_type(types, op.return_type),
     return_type_collection |->
         get_entity_or_prop_from_type(types, op.return_type_collection),
     bound_to_collection |-> bound_to_collection]

\* a binder that registers nothing
RegisterUnboundDropped(registry, name, instance) == registry

\* lines 157 and 188: self.service.actions[name] = instance
RegisterUnbound(registry, name, instance) == DictPut(registry, name, instance)

\* _create_actions, one iteration (lines 130-157)
CreateAction ==
    /\ pc = "actions"
    /\ idx <= Len(actions)
    /\ LET action == actions[idx]
           b == BindEntity(classes, entities, action.is_bound_to)
           instance == OperationInstance("Action", all_types, action, b[1])
       IN  IF b[2] # 0
           THEN /\ classes' = SetAttr(classes, b[2], action.name, instance)
                /\ UNCHANGED service_actions
           ELSE /\ service_actions' = RegisterUnbound(service_actions, action.name, instance)
                /\ UNCHANGED classes
    /\ idx' = idx + 1
    /\ UNCHANGED <<doc, pc, schemas, entity_sets, actions, functions, all_types,
                   entities, enum_objs, service_functions, typename, strip_result>>

\* _create_functions, one iteration (lines 161-188)
CreateFunction ==
    /\ pc = "functions"
    /\ idx <= Len(functions)
    /\ LET function == functions[idx]
           b == BindEntity(classes, entities, function.is_bound_to)
           instance == OperationInstance("Function", all_types, function, b[1])
       IN  IF b[2] # 0
           THEN /\ classes' = SetAttr(classes, b[2], function.name, instance)
                /\ UNCHANGED service_functions
           ELSE /\ service_functions' =
                       RegisterUnbound(service_functions, function.name, instance)
                /\ UNCHANGED classes
    /\ idx' = idx + 1
    /\ UNCHANGED <<doc, pc, schemas, entity_sets, actions, functions, all_types,
                   entities, enum_objs, service_actions, typename, strip_result>>

-----------------------------------------------------------------------------
(* get_entity_sets: the sequence of the passes.                            *)

\* line 192: schemas, entity_sets, actions, functions = parse_document(document)
ParseDocument ==
    /\ pc = "parse"
    /\ schemas' = ParseSchemas(doc)
    /\ entity_sets' = ContainerSets(AllEntitySets(doc.Schemas), ParseSchemas(doc))
    /\ actions' = ParseActions(doc.Schemas)
    /\ functions' = ParseFunctions(doc.Schemas)
    /\ pc' = "enums"
    /\ idx' = 1
    /\ UNCHANGED <<doc, all_types, entities, classes, enum_objs, service_actions,
                   service_functions, typename, strip_result>>

\* the number of iterations of the loop a pass runs
PassLength ==
    CASE pc = "enums" -> Len(AllEnums(schemas))
      [] pc = "entities" -> Len(AllEntities(schemas))
      [] pc = "relationships" -> Len(entities)
      [] pc = "actions" -> Len(actions)
      [] pc = "functions" -> Len(functions)
      [] OTHER -> 0

\* lines 208-220: the order of the passes
PassAfter ==
    CASE pc = "enums" -> "entities"
      [] pc = "entities" -> "relationships"
      [] pc = "relationships" -> "actions"
      [] pc = "actions" -> "functions"
      [] pc = "functions" -> "done"
      [] OTHER -> pc

\* a pass's loop is exhausted: the next call of lines 214-217, or the return
NextPass ==
    /\ pc \in {"enums", "entities", "relationships", "actions", "functions"}
    /\ idx > PassLength
    /\ pc' = PassAfter
    /\ idx' = 1
    /\ UNCHANGED <<doc, schemas, entity_sets, actions, functions, all_types, entities,
                   classes, enum_objs, service_actions, service_functions,
                   typename, strip_result>>

\* a direct call of _type_is_collection(typename)
CallTypeIsCollection ==
    /\ pc = "call"
    /\ strip_result' = _type_is_collection(typename)
    /\ pc' = "returned"
    /\ UNCHANGED <<doc, idx, schemas, entity_sets, actions, functions, all_types,
                   entities, classes, enum_objs, service_actions, service_functions,
                   typename>>

-----------------------------------------------------------------------------
(* The documents the compiler is run on.                                   *)
(* Two schemas, N and co, in either order.  Type names are unique, as are  *)
(* the member names of one type and the names bound on it by navigation    *)
(* properties and operations; a derived type may redeclare a property of   *)
(* its base.  Declaration order, dangling references, types that share a   *)
(* bare name across the schemas and collection wrappers are free; some     *)
(* references name a type of the namespace cN, which no document has.      *)

NsN == <<"N">>
NsCo == <<"c","o">>
\* a namespace no schema of the documents has
NsCN == <<"c","N">>
NameA == <<"A">>
NameB == <<"B">>
NameD == <<"D">>
NameE == <<"E">>
NameSt == <<"S","t">>
NameZz == <<"Z","z">>
PropId == <<"I","d">>
PropBr == <<"B","r">>
PropSc == <<"S","c">>
PropTg == <<"T","g">>
NavRel == <<"R","e","l">>
NavAlt == <<"A","l","t">>
OpAct == <<"A","c","t">>
OpFn == <<"F","n">>
ParamP == <<"p">>
SetAs == <<"A","s">>
SetXs == <<"X","s">>
SetDs == <<"D","s">>

\* the text Collection(X) of a document attribute
Wrapped(x) == CollectionPrefix \o x \o CloseParen

Property(name, type) == [Name |-> name, Type |-> type]
Navigation(name, type, fk) == [Name |-> name, Type |-> type, Property |-> fk]
EntityType(name, base, key, props, navs) ==
    [Name |-> name, BaseType |-> base, Key |-> key, Properties |-> props,
     NavigationProperties |-> navs]

\* the navigation properties an entity type of the documents may declare
NavsOfA == {<<>>,
            <<Navigation(NavRel, Wrapped(DotJoin(NsCo, NameB)), None)>>,
            <<Navigation(NavRel, Wrapped(DotJoin(NsN, NameD)), None)>>}
NavsOfD == {<<>>, <<Navigation(NavAlt, DotJoin(NsN, NameZz), None)>>}
NavsOfCoA == {<<>>,
              <<Navigation(NavRel, DotJoin(NsN, NameA), None)>>,
              <<Navigation(NavRel, Wrapped(DotJoin(NsN, NameZz)), None)>>}
NavsOfCoB == {<<>>,
              <<Navigation(NavRel, DotJoin(NsCo, NameA), PropId)>>,
              <<Navigation(NavRel, Wrapped(DotJoin(NsCo, NameB)), None)>>,
              <<Navigation(NavRel, Wrapped(DotJoin(NsCN, NameA)), None)>>}

\* the entity types of schema N: A, D derived from A, E derived from D
TypesOfN(navsA, navsD) ==
    {EntityType(NameA, None, {PropId}, <<Property(PropId, EdmInt32)>>, n) : n \in navsA}
    \cup {EntityType(NameD, DotJoin(NsN, NameA), {},
                     <<Property(PropId, EdmString), Property(PropBr, EdmString)>>, n) :
             n \in navsD}
    \cup {EntityType(NameE, DotJoin(NsN, NameD), {},
                     <<Property(PropBr, EdmInt32), Property(PropSc, DotJoin(NsN, NameSt))>>,
                     <<>>)}

\* the entity types of schema co: A and B, both roots
TypesOfCo(navsA, navsB) ==
    {EntityType(NameA, None, {PropId}, <<Property(PropId, EdmGuid)>>, n) : n \in navsA}
    \cup {EntityType(NameB, None, {PropId},
                     <<Property(PropId, EdmInt32), Property(PropTg, Wrapped(EdmString))>>,
                     n) : n \in navsB}

\* the lists of at most n entity types of T, no name twice
TypeLists(T, n) ==
    {s \in UNION {[1..k -> T] : k \in 0..n} :
        \A i, j \in 1..Len(s) : i # j => s[i].Name # s[j].Name}

\* the entity types of the two schemas, MaxEntityTypes at most together
Layouts(TN, TCo) ==
    {l \in TypeLists(TN, MaxEntityTypes) \X TypeLists(TCo, MaxEntityTypes) :
        Len(l[1]) + Len(l[2]) <= MaxEntityTypes}

EntitySet(name, type) == [Name |-> name, EntityType |-> type]

\* the EntitySet elements of a document
SetChoices ==
    LET as == EntitySet(SetAs, DotJoin(NsN, NameA))
        xs == EntitySet(SetXs, DotJoin(NsN, NameA))
        ds == EntitySet(SetDs, DotJoin(NsN, NameD))
    IN  {<<as>>, <<xs>>, <<ds>>, <<as, xs>>, <<xs, as>>, <<as, ds>>, <<ds, as>>,
         <<xs, ds>>, <<ds, xs>>}

Operation(name, is_bound, binding, params, returns) ==
    [Name |-> name, IsBound |-> is_bound,
     Parameters |-> (IF binding = None THEN <<>>
                     ELSE <<Property(BindingParameter, binding)>>) \o params,
     ReturnType |-> returns]

\* the Action / Function elements of a document, but for their names
OperationChoices ==
    {<<TRUE, b, <<Property(ParamP, EdmInt32)>>, <<EdmBoolean>>>> :
        b \in {DotJoin(NsN, NameA), Wrapped(DotJoin(NsN, NameD)),
               Wrapped(DotJoin(NsCo, NameB)), Wrapped(DotJoin(NsCN, NameA)),
               DotJoin(NsN, NameZz), None}}
    \cup {<<FALSE, b, <<>>, <<>>>> : b \in {None, DotJoin(NsN, NameA)}}
    \cup {<<FALSE, None, <<Property(ParamP, t)>>, <<DotJoin(NsN, NameA)>>>> :
            t \in {DotJoin(NsN, NameSt), DotJoin(NsCo, NameA), NameZz}}
    \cup {<<FALSE, None, <<>>, <<t>>>> :
            t \in {DotJoin(NsN, NameA), Wrapped(DotJoin(NsN, NameD)),
                   DotJoin(NsN, NameSt), Wrapped(DotJoin(NsCo, NameB)),
                   Wrapped(EdmGuid), DotJoin(NsN, NameZz)}}

StatusEnum ==
    [Name |-> NameSt,
     Members |-> <<[Name |-> "Active", Value |-> 0], [Name |-> "Closed", Value |-> 1]>>]

\* a document: schema N (with the enum and the operations) and schema co,
\* N first or co first, the entity sets in the first or the last container
Document(n_first, layout, sets, sets_first, ops) ==
    LET n == [Namespace |-> NsN, EnumTypes |-> <<StatusEnum>>,
              EntityTypes |-> layout[1],
              EntitySets |-> IF n_first = sets_first THEN sets ELSE <<>>,
              Actions |-> [i \in 1..Len(ops) |->
                             Operation(OpAct, ops[i][1], ops[i][2], ops[i][3], ops[i][4])],
              Functions |-> [i \in 1..Len(ops) |->
                             Operation(OpFn, ops[i][1], ops[i][2], ops[i][3], ops[i][4])]]
        co == [Namespace |-> NsCo, EnumTypes |-> <<>>,
               EntityTypes |-> layout[2],
               EntitySets |-> IF n_first = sets_first THEN <<>> ELSE sets,
               Actions |-> <<>>, Functions |-> <<>>]
    IN  [Schemas |-> IF n_first THEN <<n, co>> ELSE <<co, n>>]

PlainLayouts == Layouts(TypesOfN({<<>>}, {<<>>}), TypesOfCo({<<>>}, {<<>>}))

Documents ==
    {Document(f, l, <<>>, TRUE, <<>>) :
        f \in BOOLEAN, l \in Layouts(TypesOfN(NavsOfA, NavsOfD),
                                     TypesOfCo(NavsOfCoA, NavsOfCoB))}
    \cup {Document(f, l, s, g, <<>>) :
            f \in BOOLEAN, l \in PlainLayouts, s \in SetChoices, g \in BOOLEAN}
    \cup {Document(f, l, <<>>, TRUE, <<o>>) :
            f \in BOOLEAN, l \in PlainLayouts, o \in OperationChoices}

EmptyDocument == [Schemas |-> <<>>]

\* the type names _type_is_collection is called on directly: the strings of
\* at most MaxNameLen of these characters, bare and wrapped
NameChars == {"N", "c", ".", "B"}
BareNames == UNION {[1..k -> NameChars] : k \in 1..MaxNameLen}
TypeNameInputs == BareNames \cup {Wrapped(x) : x \in BareNames}

-----------------------------------------------------------------------------
(* Specifications.                                                         *)

Fresh ==
    /\ idx = 1
    /\ schemas = <<>>
    /\ entity_sets = EmptyDict
    /\ actions = <<>>
    /\ functions = <<>>
    /\ all_types = EmptyDict
    /\ entities = <<>>
    /\ classes = <<>>
    /\ enum_objs = <<>>
    /\ service_actions = EmptyDict
    /\ service_functions = EmptyDict
    /\ strip_result = <<FALSE, None>>

\* get_entity_sets is entered with a loaded document and empty tables
Init ==
    /\ doc \in Documents
    /\ pc = "parse"
    /\ typename = None
    /\ Fresh

Next ==
    \/ ParseDocument
    \/ CreateEnum
    \/ CreateEntity
    \/ SetObjectRelationships
    \/ CreateAction
    \/ CreateFunction
    \/ NextPass

Spec == Init /\ [][Next]_vars

\* _type_is_collection is called on one type name
InitTypeName ==
    /\ doc = EmptyDocument
    /\ pc = "call"
    /\ typename \in TypeNameInputs
    /\ Fresh

NextTypeName == CallTypeIsCollection

SpecTypeName == InitTypeName /\ [][NextTypeName]_vars

-----------------------------------------------------------------------------
(* Notions the properties are stated in.                                   *)

\* the X of a type name written Collection(X); any other name is itself
ElementTypeName(name) ==
    IF StartsWith(name, CollectionPrefix) /\ name[Len(name)] = ")"
    THEN SubSeq(name, Len(CollectionPrefix) + 1, Len(name) - 1)
    ELSE name

\* the entity declarations in traversal order; the class built from the
\* i-th declaration is classes[i]
Declared == AllEntities(schemas)

\* the declaration compiled before the i-th one that its BaseType names, or 0
EarlierBase(i) ==
    IF \E j \in 1..(i - 1) : Declared[j].type = Declared[i].base_type
    THEN CHOOSE j \in 1..(i - 1) : Declared[j].type = Declared[i].base_type
    ELSE 0

RECURSIVE Ancestors(_)
\* the chain of base types of the i-th declaration, each compiled before its subtype
Ancestors(i) ==
    IF EarlierBase(i) = 0 THEN {} ELSE {EarlierBase(i)} \cup Ancestors(EarlierBase(i))

DeclaredProperties(i) ==
    {Declared[i].properties[k].name : k \in 1..Len(Declared[i].properties)}

RECURSIVE ResolvedNames(_)
\* the names hasattr finds on a class
ResolvedNames(c) ==
    DOMAIN classes[c].attrs
    \cup (IF classes[c].parent = 0 THEN {} ELSE ResolvedNames(classes[c].parent))

NavigationKinds == {"NavigationProperty"}
OperationKinds == {"Action", "Function"}

\* the names that resolve to a scalar or enum property on a class
ResolvedProperties(c) ==
    {n \in ResolvedNames(c) :
        GetAttr(classes, c, n).kind \notin NavigationKinds \cup OperationKinds}

\* the names that resolve to a navigation property on a class
ResolvedNavigations(c) ==
    {n \in ResolvedNames(c) : GetAttr(classes, c, n).kind \in NavigationKinds}

\* the EntitySet elements of the document
DeclaredSets == AllEntitySets(doc.Schemas)

\* the names of the entity sets declared for a type name
SetNamesFor(type) ==
    {DeclaredSets[k].Name : k \in {x \in 1..Len(DeclaredSets) :
                                      DeclaredSets[x].EntityType = type}}

\* the operation instances the binder made: on classes and in a registry
BoundInstances ==
    UNION {{classes[c].attrs[n] : n \in {m \in DOMAIN classes[c].attrs :
                classes[c].attrs[m].kind \in OperationKinds}} : c \in 1..Len(classes)}
UnboundInstances ==
    {service_actions[n] : n \in DOMAIN service_actions}
    \cup {service_functions[n] : n \in DOMAIN service_functions}

\* the instance made for an operation dict, if any
InstancesOf(kind, op) ==
    {x \in BoundInstances \cup UnboundInstances :
        x.kind = kind /\ x.short_name = op.name}

\* the operation dicts with the kind of instance made from them
Operations ==
    {<<"Action", actions[i]>> : i \in 1..Len(actions)}
    \cup {<<"Function", functions[i]>> : i \in 1..Len(functions)}

\* a type name with its collection wrapper taken off by _type_is_collection
StrippedTypeName(name) == _type_is_collection(name)[2]

\* the type table names an entity type by this name
NamesEntityType(name) == name \in DOMAIN all_types /\ all_types[name].k = "entity"

-----------------------------------------------------------------------------
(* Properties.                                                             *)

\* C1: _type_is_collection returns (TRUE, X) for Collection(X), X exactly as
\* written inside the wrapper, and (FALSE, name) for every other type name.
C1_WrapperDetection ==
    pc = "returned" =>
        strip_result = IF \E x \in BareNames : typename = Wrapped(x)
                       THEN <<TRUE, ElementTypeName(typename)>>
                       ELSE <<FALSE, typename>>


C3_InheritanceSuperset ==
    \A i \in 1..Len(classes) : \A j \in Ancestors(i) :
        ResolvedProperties(j) \subseteq ResolvedProperties(i)

\* C3 happens: A{Id}, D{Br} on A, E{Sc} on D compiled in that order give
\* D = {Id, Br} and E = {Id, Br, Sc}.
C3_Witness ==
    /\ pc = "done"
    /\ \E i \in 1..Len(classes) :
          /\ Cardinality(Ancestors(i)) = 2
          /\ ResolvedProperties(i) = {PropId, PropBr, PropSc}
          /\ \E j \in Ancestors(i) : ResolvedProperties(j) = {PropId, PropBr}
          /\ \E j \in Ancestors(i) : ResolvedProperties(j) = {PropId}

\* C4 as stated: every key of the returned entities mapping is the
\* externally visible collection name of the class it maps to.
C4_KeyIsCollectionName ==
    pc = "done" =>
        \A e \in 1..Len(entities) :
            entities[e].key = classes[entities[e].cls].odata_collection

\* C4 as amended: every key of the returned entities mapping is the bare
\* type name of the class it maps to.
C4_KeyIsBareName ==
    pc = "done" =>
        \A e \in 1..Len(entities) : entities[e].key = classes[entities[e].cls].name

\* C4 happens: the mapping is returned with a class whose collection name
\* is that of an entity set and differs from its bare name.
C4_Witness ==
    /\ pc = "done"
    /\ \E e \in 1..Len(entities) :
          /\ classes[entities[e].cls].odata_collection
                \in SetNamesFor(classes[entities[e].cls].odata_type)
          /\ classes[entities[e].cls].odata_collection # classes[entities[e].cls].name
          /\ entities[e].key = classes[entities[e].cls].name

\* C5: entity set namer.  The collection name of a compiled entity type is
\* the name of an entity set declared for its fully-qualified type name, in
\* whichever schema's container that set stands, and is the bare type name
\* when no entity set is declared for the type.
C5_CollectionName ==
    \A c \in 1..Len(classes) :
        IF SetNamesFor(classes[c].odata_type) # {}
        THEN classes[c].odata_collection \in SetNamesFor(classes[c].odata_type)
        ELSE classes[c].odata_collection = classes[c].name

\* C5 happens: a type of the first schema named by a set that stands in the
\* last schema's container, next to a type no set is declared for.
C5_Witness ==
    /\ pc = "done"
    /\ Len(doc.Schemas) = 2
    /\ doc.Schemas[2].EntitySets # <<>>
    /\ \E c \in 1..Len(classes) :
          /\ classes[c].odata_type =
                DotJoin(doc.Schemas[1].Namespace, classes[c].name)
          /\ classes[c].odata_collection \in SetNamesFor(classes[c].odata_type)
    /\ \E c \in 1..Len(classes) :
          /\ SetNamesFor(classes[c].odata_type) = {}
          /\ classes[c].odata_collection = classes[c].name

C7_NavigationResolved ==
    pc = "done" =>
        \A c \in 1..Len(classes) :
            \A k \in 1..Len(Declared[c].navigation_properties) :
                LET nav == Declared[c].navigation_properties[k]
                    target == StrippedTypeName(nav.type)
                IN  NamesEntityType(target)
                        => /\ nav.name \in ResolvedNavigations(c)
                           /\ GetAttr(classes, c, nav.name).target = all_types[target].id

SharedLookup(name) ==
    IF name = None THEN NoObject
    ELSE IF name \in DOMAIN all_types THEN all_types[name]
    ELSE IF name \in DOMAIN property_types THEN PropertyClass(property_types[name])
    ELSE PropertyClass("StringProperty")

\* the return types of an operation instance come from the shared lookup
ReturnsFromSharedLookup(o) ==
    \A x \in InstancesOf(o[1], o[2]) :
        /\ x.return_type = SharedLookup(o[2].return_type)
        /\ x.return_type_collection = SharedLookup(o[2].return_type_collection)

\* C10 as stated: every parameter type and every return type of an action
\* or function is the result of the shared lookup.
C10_AllTypesFromSharedLookup ==
    pc = "done" =>
        \A o \in Operations :
            /\ InstancesOf(o[1], o[2]) # {}
            /\ ReturnsFromSharedLookup(o)
            /\ \A x \in InstancesOf(o[1], o[2]) :
                  \A k \in 1..Len(o[2].parameters) :
                      x.parameters[o[2].parameters[k].name]
                          = SharedLookup(o[2].parameters[k].type)

\* C10 as amended: every return type is the result of the shared lookup;
\* every parameter type is the property class of its name, string by default,
\* whether or not the name is a key of the type table.
C10_ReturnTypesFromSharedLookup ==
    pc = "done" =>
        \A o \in Operations :
            /\ InstancesOf(o[1], o[2]) # {}
            /\ ReturnsFromSharedLookup(o)
            /\ \A x \in InstancesOf(o[1], o[2]) :
                  \A k \in 1..Len(o[2].parameters) :
                      x.parameters[o[2].parameters[k].name]
                          = IF o[2].parameters[k].type \in DOMAIN property_types
                            THEN PropertyClass(property_types[o[2].parameters[k].type])
                            ELSE PropertyClass("StringProperty")

\* C10 happens: an operation returns an entity type of the table and takes
\* a parameter whose type is a key of the table, recorded as a string.
C10_Witness ==
    /\ pc = "done"
    /\ \E o \in Operations : \E x \in InstancesOf(o[1], o[2]) :
          /\ x.return_type.k = "entity"
          /\ \E k \in 1..Len(o[2].parameters) :
                /\ o[2].parameters[k].type \in DOMAIN all_types
                /\ x.parameters[o[2].parameters[k].name] = PropertyClass("StringProperty")

====
